---- MODULE Spec2Model ----
(***************************************************************************)
(* A model of the ci-search index functions (package cisearch):            *)
(*   IndexJobs            src/functions.go                                 *)
(*   RecordFailingJob     src/unnamed/part_000                             *)
(*   PrometheusValue.UnmarshalJSON, PrometheusLabels   src/functions.go    *)
(* Strings are TLA+ strings handled character by character, so that the    *)
(* path, URL, time and number conversions are computed, not assumed.       *)
(***************************************************************************)
EXTENDS Integers, Sequences, FiniteSets, Bags, TLC

(***************************************************************************)
(* Byte-string helpers (Go: bytes, strings).                               *)
(***************************************************************************)
Char(s, i) == SubSeq(s, i, i)

From(s, i) == SubSeq(s, i, Len(s))

\* bytes.Index(data, c) for a one-byte separator, 1-based; 0 when absent.
IndexOf(s, c) ==
    LET hits == {i \in 1..Len(s) : Char(s, i) = c}
    IN  IF hits = {} THEN 0 ELSE CHOOSE i \in hits : \A j \in hits : i <= j

\* strings.LastIndex(s, c), 1-based; 0 when absent.
LastIndexOf(s, c) ==
    LET hits == {i \in 1..Len(s) : Char(s, i) = c}
    IN  IF hits = {} THEN 0 ELSE CHOOSE i \in hits : \A j \in hits : i >= j

HasPrefix(s, prefix) ==
    Len(s) >= Len(prefix) /\ SubSeq(s, 1, Len(prefix)) = prefix

IsSpace(c) == c \in {" ", "\t", "\n", "\r", "\f"}

RECURSIVE TrimLeft(_)
TrimLeft(s) ==
    IF Len(s) > 0 /\ IsSpace(Char(s, 1)) THEN TrimLeft(From(s, 2)) ELSE s

RECURSIVE TrimRight(_)
TrimRight(s) ==
    IF Len(s) > 0 /\ IsSpace(Char(s, Len(s)))
    THEN TrimRight(SubSeq(s, 1, Len(s) - 1)) ELSE s

TrimSpace(s) == TrimRight(TrimLeft(s))

\* strings.Split(s, "/")
RECURSIVE Split(_)
Split(s) ==
    LET p == IndexOf(s, "/")
    IN  IF p = 0 THEN <<s>>
        ELSE <<SubSeq(s, 1, p - 1)>> \o Split(From(s, p + 1))

RECURSIVE JoinSlash(_)
JoinSlash(q) ==
    IF q = <<>> THEN ""
    ELSE IF Len(q) = 1 THEN q[1]
    ELSE q[1] \o "/" \o JoinSlash(Tail(q))

(***************************************************************************)
(* Go package path: Clean, Join, Base, Dir.                                *)
(***************************************************************************)
RECURSIVE CleanSegs(_, _, _)
CleanSegs(todo, out, rooted) ==
    IF todo = <<>> THEN out
    ELSE LET h == Head(todo)
             t == Tail(todo)
         IN  IF h = "" \/ h = "." THEN CleanSegs(t, out, rooted)
             ELSE IF h = ".."
             THEN IF out # <<>> /\ out[Len(out)] # ".."
                  THEN CleanSegs(t, SubSeq(out, 1, Len(out) - 1), rooted)
                  ELSE IF rooted THEN CleanSegs(t, out, rooted)
                  ELSE CleanSegs(t, Append(out, ".."), rooted)
             ELSE CleanSegs(t, Append(out, h), rooted)

Clean(p) ==
    IF p = "" THEN "."
    ELSE LET rooted == Char(p, 1) = "/"
             s == (IF rooted THEN "/" ELSE "")
                      \o JoinSlash(CleanSegs(Split(p), <<>>, rooted))
         IN  IF s = "" THEN "." ELSE s

Join(elems) ==
    LET ne == SelectSeq(elems, LAMBDA e : e # "")
    IN  IF ne = <<>> THEN "" ELSE Clean(JoinSlash(ne))

RECURSIVE StripSlashes(_)
StripSlashes(s) ==
    IF Len(s) > 0 /\ Char(s, Len(s)) = "/"
    THEN StripSlashes(SubSeq(s, 1, Len(s) - 1)) ELSE s

Base(p) ==
    IF p = "" THEN "."
    ELSE LET q == StripSlashes(p)
             b == From(q, LastIndexOf(q, "/") + 1)
         IN  IF b = "" THEN "/" ELSE b

Dir(p) == Clean(SubSeq(p, 1, LastIndexOf(p, "/")))

(***************************************************************************)
(* strconv: FormatInt and ParseInt in base 10.                             *)
(***************************************************************************)
DigitChars == "0123456789"

RECURSIVE FormatNat(_)
FormatNat(n) ==
    IF n < 10 THEN Char(DigitChars, n + 1)
    ELSE FormatNat(n \div 10) \o Char(DigitChars, (n % 10) + 1)

FormatInt(n) == IF n < 0 THEN "-" \o FormatNat(0 - n) ELSE FormatNat(n)

IsDigit(c) == IndexOf(DigitChars, c) > 0

AllDigits(s) == Len(s) > 0 /\ \A i \in 1..Len(s) : IsDigit(Char(s, i))

RECURSIVE StripZeros(_)
StripZeros(s) ==
    IF Len(s) > 1 /\ Char(s, 1) = "0" THEN StripZeros(From(s, 2)) ELSE s

\* a > b for two digit strings without leading zeros
RECURSIVE DigitsGreater(_, _)
DigitsGreater(a, b) ==
    IF Len(a) # Len(b) THEN Len(a) > Len(b)
    ELSE IF a = "" THEN FALSE
    ELSE LET x == IndexOf(DigitChars, Char(a, 1))
             y == IndexOf(DigitChars, Char(b, 1))
         IN  IF x # y THEN x > y ELSE DigitsGreater(From(a, 2), From(b, 2))

RECURSIVE DigitsValue(_, _)
DigitsValue(s, acc) ==
    IF s = "" THEN acc
    ELSE DigitsValue(From(s, 2), acc * 10 + (IndexOf(DigitChars, Char(s, 1)) - 1))

\* An int64 is a TLA+ integer where it fits 31 bits; a larger
\* one is kept as its decimal text behind this tag.
WideInt(neg, digits) == "int64:" \o (IF neg THEN "-" ELSE "") \o digits

Int64Value(neg, digits) ==
    IF DigitsGreater(digits, "2147483647") THEN WideInt(neg, digits)
    ELSE IF neg THEN 0 - DigitsValue(digits, 0) ELSE DigitsValue(digits, 0)

\* strconv.ParseInt(s, 10, 64): the value it returns and its error
ParseInt(s) ==
    LET neg  == Len(s) > 0 /\ Char(s, 1) = "-"
        sign == Len(s) > 0 /\ Char(s, 1) \in {"+", "-"}
        body == IF sign THEN From(s, 2) ELSE s
    IN  IF ~AllDigits(body) THEN [val |-> 0, err |-> "syntax"]
        ELSE LET u == StripZeros(body)
             IN  IF ~neg /\ DigitsGreater(u, "9223372036854775807")
                 THEN [val |-> WideInt(FALSE, "9223372036854775807"),
                       err |-> "range"]
                 ELSE IF neg /\ DigitsGreater(u, "9223372036854775808")
                 THEN [val |-> WideInt(TRUE, "9223372036854775808"),
                       err |-> "range"]
                 ELSE [val |-> Int64Value(neg /\ u # "0", u), err |-> ""]

(***************************************************************************)
(* time.Unix(sec, 0).UTC().Format(time.RFC3339)                            *)
(***************************************************************************)
Pad2(n) == IF n < 10 THEN "0" \o FormatNat(n) ELSE FormatNat(n)

Pad4(n) ==
    IF n < 10 THEN "000" \o FormatNat(n)
    ELSE IF n < 100 THEN "00" \o FormatNat(n)
    ELSE IF n < 1000 THEN "0" \o FormatNat(n)
    ELSE FormatNat(n)

\* the civil date of a day count since 1970-01-01 (proleptic Gregorian)
CivilFromDays(days) ==
    LET z   == days + 719468
        era == z \div 146097
        doe == z - era * 146097
        yoe == (doe - doe \div 1460 + doe \div 36524 - doe \div 146096) \div 365
        doy == doe - (365 * yoe + yoe \div 4 - yoe \div 100)
        mp  == (5 * doy + 2) \div 153
        d   == doy - (153 * mp + 2) \div 5 + 1
        m   == IF mp < 10 THEN mp + 3 ELSE mp - 9
        y   == yoe + era * 400 + (IF m <= 2 THEN 1 ELSE 0)
    IN  [year |-> y, month |-> m, day |-> d]

FormatRFC3339(sec) ==
    LET days == sec \div 86400
        rem  == sec % 86400
        c    == CivilFromDays(days)
        yr   == IF c.year < 0 THEN "-" \o Pad4(0 - c.year) ELSE Pad4(c.year)
    IN  yr \o "-" \o Pad2(c.month) \o "-" \o Pad2(c.day) \o "T"
           \o Pad2(rem \div 3600) \o ":" \o Pad2((rem % 3600) \div 60) \o ":"
           \o Pad2(rem % 60) \o "Z"

(***************************************************************************)
(* (&url.URL{Scheme: "gs", Host: host, Path: p}).String()                  *)
(***************************************************************************)
\* url.shouldEscape in path mode, over the characters object names use here
EscapeChar(c) ==
    CASE c = " " -> "%20"
      [] c = "%" -> "%25"
      [] c = "?" -> "%3F"
      [] c = "#" -> "%23"
      [] OTHER   -> c

RECURSIVE EscapePath(_)
EscapePath(p) ==
    IF p = "" THEN "" ELSE EscapeChar(Char(p, 1)) \o EscapePath(From(p, 2))

URLString(host, p) ==
    "gs://" \o host
        \o (IF p # "" /\ Char(p, 1) # "/" THEN "/" ELSE "")
        \o EscapePath(p)

(***************************************************************************)
(* strconv.ParseFloat(s, 64): whether it returns an error.                 *)
(***************************************************************************)
UpperChars == "ABCDEFGHIJKLMNOPQRSTUVWXYZ"
LowerChars == "abcdefghijklmnopqrstuvwxyz"

LowerChar(c) ==
    LET i == IndexOf(UpperChars, c) IN IF i > 0 THEN Char(LowerChars, i) ELSE c

RECURSIVE ToLower(_)
ToLower(s) == IF s = "" THEN "" ELSE LowerChar(Char(s, 1)) \o ToLower(From(s, 2))

IsHexDigit(c) == IsDigit(c) \/ IndexOf("abcdef", LowerChar(c)) > 0

\* strconv.special: "nan", and an optionally signed "inf" or "infinity"
IsSpecialFloat(s) ==
    LET signed == Len(s) > 0 /\ Char(s, 1) \in {"+", "-"}
        t      == ToLower(IF signed THEN From(s, 2) ELSE s)
    IN  t \in {"inf", "infinity"} \/ (~signed /\ t = "nan")

\* strconv.readFloat's digit loop: the mantissa's digits, how many of them
\* precede the point, and what follows the mantissa
RECURSIVE ScanMantissa(_, _, _, _, _)
ScanMantissa(s, hex, sawdot, digits, dp) ==
    IF s = "" THEN [rest |-> "", digits |-> digits, dp |-> dp]
    ELSE LET c == Char(s, 1)
         IN  IF c = "_" THEN ScanMantissa(From(s, 2), hex, sawdot, digits, dp)
             ELSE IF c = "." /\ ~sawdot
             THEN ScanMantissa(From(s, 2), hex, TRUE, digits, dp)
             ELSE IF IsDigit(c) \/ (hex /\ IsHexDigit(c))
             THEN ScanMantissa(From(s, 2), hex, sawdot, digits \o LowerChar(c),
                               IF sawdot THEN dp ELSE dp + 1)
             ELSE [rest |-> s, digits |-> digits, dp |-> dp]

RECURSIVE ScanExpDigits(_, _)
\* the exponent's digits, underscores skipped; the value is capped as in Go
ScanExpDigits(s, acc) ==
    IF s = "" THEN [rest |-> "", val |-> acc]
    ELSE LET c == Char(s, 1)
         IN  IF c = "_" THEN ScanExpDigits(From(s, 2), acc)
             ELSE IF IsDigit(c)
             THEN ScanExpDigits(From(s, 2),
                      IF acc < 10000 THEN acc * 10 + (IndexOf(DigitChars, c) - 1)
                      ELSE acc)
             ELSE [rest |-> s, val |-> acc]

\* strconv.underscoreOK: underscores only between digits or after a base prefix
RECURSIVE UnderscoreScan(_, _, _)
UnderscoreScan(s, hex, saw) ==
    IF s = "" THEN saw # "_"
    ELSE LET c == Char(s, 1)
         IN  IF IsDigit(c) \/ (hex /\ IsHexDigit(c))
             THEN UnderscoreScan(From(s, 2), hex, "0")
             ELSE IF c = "_"
             THEN saw = "0" /\ UnderscoreScan(From(s, 2), hex, "_")
             ELSE saw # "_" /\ UnderscoreScan(From(s, 2), hex, "!")

UnderscoreOK(s) ==
    LET t   == IF Len(s) > 0 /\ Char(s, 1) \in {"+", "-"} THEN From(s, 2) ELSE s
        pre == Len(t) >= 2 /\ Char(t, 1) = "0"
                   /\ LowerChar(Char(t, 2)) \in {"b", "o", "x"}
    IN  IF pre THEN UnderscoreScan(From(t, 3), LowerChar(Char(t, 2)) = "x", "0")
        ELSE UnderscoreScan(t, FALSE, "^")

RECURSIVE ZeroPad(_, _)
ZeroPad(s, n) == IF Len(s) >= n THEN SubSeq(s, 1, n) ELSE ZeroPad(s \o "0", n)

RECURSIVE LeadingZeros(_)
LeadingZeros(s) ==
    IF s # "" /\ Char(s, 1) = "0" THEN 1 + LeadingZeros(From(s, 2)) ELSE 0

\* a decimal 0.d1d2... * 10^(dp+e) beyond the largest float64,
\* 1.7976931348623157e308, which ParseFloat reports as a range error
DecimalOverflows(digits, dp, e) ==
    LET z   == LeadingZeros(digits)
        sig == From(digits, z + 1)
        adj == (dp - z) + e - 1
    IN  sig # "" /\ (adj > 308
           \/ (adj = 308 /\ ~DigitsGreater("17976931348623158", ZeroPad(sig, 17))))

\* a hexadecimal mantissa * 2^e of 1024 bits or more
HexOverflows(digits, dp, e) ==
    LET z    == LeadingZeros(digits)
        sig  == From(digits, z + 1)
        top  == IF sig = "" THEN 0 ELSE IndexOf("0123456789abcdef", Char(sig, 1)) - 1
        bits == IF top >= 8 THEN 4 ELSE IF top >= 4 THEN 3 ELSE IF top >= 2 THEN 2 ELSE 1
    IN  sig # "" /\ 4 * (dp - z - 1) + bits + e > 1024

\* TRUE when strconv.ParseFloat(s, 64) returns a nil error
ParseFloatOK(s) ==
    IF IsSpecialFloat(s) THEN TRUE
    ELSE LET t    == IF Len(s) > 0 /\ Char(s, 1) \in {"+", "-"} THEN From(s, 2) ELSE s
             hex  == Len(t) > 2 /\ Char(t, 1) = "0" /\ LowerChar(Char(t, 2)) = "x"
             m    == ScanMantissa(IF hex THEN From(t, 3) ELSE t, hex, FALSE, "", 0)
             expc == IF hex THEN "p" ELSE "e"
             hasE == m.rest # "" /\ LowerChar(Char(m.rest, 1)) = expc
             r1   == IF hasE THEN From(m.rest, 2) ELSE m.rest
             eneg == hasE /\ r1 # "" /\ Char(r1, 1) = "-"
             r2   == IF hasE /\ r1 # "" /\ Char(r1, 1) \in {"+", "-"}
                     THEN From(r1, 2) ELSE r1
             ex   == IF hasE THEN ScanExpDigits(r2, 0) ELSE [rest |-> r2, val |-> 0]
             e    == IF eneg THEN 0 - ex.val ELSE ex.val
         IN  /\ m.digits # ""
             /\ hex => hasE
             /\ hasE => (r2 # "" /\ IsDigit(Char(r2, 1)))
             /\ ex.rest = ""
             /\ UnderscoreOK(s)
             /\ IF hex THEN ~HexOverflows(m.digits, m.dp, e)
                ELSE ~DecimalOverflows(m.digits, m.dp, e)

(***************************************************************************)
(* encoding/json on the two flat shapes the functions decode themselves:   *)
(* an object of scalar members (finished.json, a label map).  DecodeObject *)
(* yields the members in document order, each with the kind and the text   *)
(* of its value.  String escapes are outside the documents modelled.       *)
(***************************************************************************)
JSONError == [ok |-> FALSE, kv |-> <<>>]

\* -? (0 | [1-9][0-9]*) (. [0-9]+)? ([eE] [+-]? [0-9]+)?
IsJSONNumber(t) ==
    LET u    == IF Len(t) > 0 /\ Char(t, 1) = "-" THEN From(t, 2) ELSE t
        m    == ScanMantissa(u, FALSE, FALSE, "", 0)
        ip   == SubSeq(u, 1, m.dp)
        frac == Len(u) - Len(m.rest) > m.dp
        hasE == m.rest # "" /\ LowerChar(Char(m.rest, 1)) = "e"
        r1   == IF hasE THEN From(m.rest, 2) ELSE m.rest
        r2   == IF hasE /\ r1 # "" /\ Char(r1, 1) \in {"+", "-"} THEN From(r1, 2) ELSE r1
    IN  /\ IndexOf(u, "_") = 0
        /\ AllDigits(ip)
        /\ Len(ip) = 1 \/ Char(ip, 1) # "0"
        /\ frac => Len(m.digits) > m.dp
        /\ IF hasE THEN AllDigits(r2) ELSE m.rest = ""

\* the index of the brace closing the object that opens at s[1]; 0 if none
RECURSIVE MatchBrace(_, _, _)
MatchBrace(s, i, depth) ==
    IF i > Len(s) THEN 0
    ELSE LET c == Char(s, i)
         IN  IF c = "{" THEN MatchBrace(s, i + 1, depth + 1)
             ELSE IF c = "}"
             THEN IF depth = 1 THEN i ELSE MatchBrace(s, i + 1, depth - 1)
             ELSE MatchBrace(s, i + 1, depth)

\* the end of a scalar token: the first of ',', '}' or white space
RECURSIVE TokenEnd(_, _)
TokenEnd(s, i) ==
    IF i > Len(s) \/ Char(s, i) \in {",", "}"} \/ IsSpace(Char(s, i)) THEN i - 1
    ELSE TokenEnd(s, i + 1)

\* one value at the head of s: its kind, its text and what follows it
ReadValue(s) ==
    IF s = "" THEN [ok |-> FALSE, kind |-> "", text |-> "", rest |-> ""]
    ELSE LET c == Char(s, 1)
         IN  IF c = "\""
             THEN LET q == IndexOf(From(s, 2), "\"")
                  IN  IF q = 0 \/ IndexOf(SubSeq(s, 2, q), "\\") > 0
                      THEN [ok |-> FALSE, kind |-> "", text |-> "", rest |-> ""]
                      ELSE [ok |-> TRUE, kind |-> "string",
                            text |-> SubSeq(s, 2, q), rest |-> From(s, q + 2)]
             ELSE IF c = "{"
             THEN LET e == MatchBrace(s, 1, 0)
                  IN  IF e = 0
                      THEN [ok |-> FALSE, kind |-> "", text |-> "", rest |-> ""]
                      ELSE [ok |-> TRUE, kind |-> "object",
                            text |-> SubSeq(s, 1, e), rest |-> From(s, e + 1)]
             ELSE LET e == TokenEnd(s, 1)
                      t == SubSeq(s, 1, e)
                  IN  IF t \in {"true", "false", "null"}
                      THEN [ok |-> TRUE, kind |-> t, text |-> t, rest |-> From(s, e + 1)]
                      ELSE IF IsJSONNumber(t)
                      THEN [ok |-> TRUE, kind |-> "number", text |-> t,
                            rest |-> From(s, e + 1)]
                      ELSE [ok |-> FALSE, kind |-> "", text |-> "", rest |-> ""]

RECURSIVE ReadMembers(_, _)
\* s stands just before a member's key
ReadMembers(s, kv) ==
    LET k == ReadValue(s)
    IN  IF ~k.ok \/ k.kind # "string" THEN JSONError
        ELSE LET r1 == TrimLeft(k.rest)
             IN  IF r1 = "" \/ Char(r1, 1) # ":" THEN JSONError
                 ELSE LET v == ReadValue(TrimLeft(From(r1, 2)))
                          r2 == TrimLeft(v.rest)
                          kv2 == Append(kv, [key |-> k.text, kind |-> v.kind,
                                             text |-> v.text])
                      IN  IF ~v.ok \/ r2 = "" THEN JSONError
                          ELSE IF Char(r2, 1) = ","
                          THEN ReadMembers(TrimLeft(From(r2, 2)), kv2)
                          ELSE IF Char(r2, 1) = "}" /\ TrimLeft(From(r2, 2)) = ""
                          THEN [ok |-> TRUE, kv |-> kv2]
                          ELSE JSONError

DecodeObject(data) ==
    LET s == TrimLeft(data)
    IN  IF s = "" \/ Char(s, 1) # "{" THEN JSONError
        ELSE LET r == TrimLeft(From(s, 2))
             IN  IF r # "" /\ Char(r, 1) = "}"
                 THEN IF TrimLeft(From(r, 2)) = "" THEN [ok |-> TRUE, kv |-> <<>>]
                      ELSE JSONError
                 ELSE ReadMembers(r, <<>>)

\* the last member whose key matches a struct field (matching ignores case)
Member(kv, field) ==
    LET hits == {i \in 1..Len(kv) : ToLower(kv[i].key) = field}
    IN  IF hits = {} THEN [key |-> field, kind |-> "absent", text |-> ""]
        ELSE kv[CHOOSE i \in hits : \A j \in hits : i >= j]

(***************************************************************************)
(* Finished (finished.json) and its decoding by json.Unmarshal.            *)
(***************************************************************************)
\* A Go pointer is a sequence: empty when nil, else holding the value.
Nil == <<>>

Ptr(v) == <<v>>

\* json.Unmarshal(data, &finished): Timestamp *int64, Passed *bool,
\* Metadata map[string]interface{}
UnmarshalFinished(data) ==
    LET d  == DecodeObject(data)
        ts == Member(d.kv, "timestamp")
        pa == Member(d.kv, "passed")
        md == Member(d.kv, "metadata")
        n  == ParseInt(ts.text)
    IN  IF ~d.ok THEN [err |-> "syntax", Timestamp |-> Nil, Passed |-> Nil]
        ELSE IF \/ ts.kind \notin {"absent", "null", "number"}
                \/ (ts.kind = "number" /\ n.err # "")
                \/ pa.kind \notin {"absent", "null", "true", "false"}
                \/ md.kind \notin {"absent", "null", "object"}
        THEN [err |-> "type", Timestamp |-> Nil, Passed |-> Nil]
        ELSE [err |-> "",
              Timestamp |-> IF ts.kind = "number" THEN Ptr(n.val) ELSE Nil,
              Passed |-> IF pa.kind = "true" THEN Ptr(TRUE)
                         ELSE IF pa.kind = "false" THEN Ptr(FALSE) ELSE Nil]

(***************************************************************************)
(* PrometheusLabels.UnmarshalJSON: a label map is a function from label    *)
(* names to values.                                                        *)
(***************************************************************************)
NoLabels == [k \in {} |-> ""]

RECURSIVE LabelsOf(_, _)
LabelsOf(kv, m) ==
    IF kv = <<>> THEN m
    ELSE LET h == Head(kv)
         IN  LabelsOf(Tail(kv),
                 [k \in DOMAIN m \cup {h.key} |->
                     IF k = h.key
                     THEN IF h.kind = "string" THEN h.text
                          ELSE IF k \in DOMAIN m THEN m[k] ELSE ""
                     ELSE m[k]])

\* l is the map decoded so far (NoLabels for a fresh element)
LabelsUnmarshalJSON(l, data) ==
    IF data = "null" THEN [err |-> "", l |-> l]
    ELSE IF data = "{}" THEN [err |-> "", l |-> NoLabels]
    ELSE LET d == DecodeObject(data)
         IN  IF ~d.ok THEN [err |-> "syntax", l |-> l]
             ELSE IF \E i \in 1..Len(d.kv) : d.kv[i].kind \notin {"string", "null"}
             THEN [err |-> "type", l |-> LabelsOf(d.kv, l)]
             ELSE [err |-> "", l |-> LabelsOf(d.kv, l)]

(***************************************************************************)
(* PrometheusValue.UnmarshalJSON, as the machine its loop runs: data is    *)
(* the input left, state the parseState, l the receiver (a pointer, Nil    *)
(* for a nil receiver) and ret where the call stands: "call" on entry,     *)
(* "loop" at the loop's test, then "nil" (no error), "error" or "panic".   *)
(***************************************************************************)
startState == 0
timestampState == 1
stringNumberState == 2
closeState == 3
doneState == 4

PVCall(l, data) == [data |-> data, state |-> startState, l |-> l, ret |-> "call"]

\* PVEnter without the fast path for null
PVEnterWithoutNull(m) ==
    IF m.data = "[]" THEN [m EXCEPT !.ret = "error"]
    ELSE [m EXCEPT !.data = TrimSpace(m.data), !.ret = "loop"]

\* lines 357-365: the two fast paths, then the trim
PVEnter(m) ==
    IF m.data = "null" THEN [m EXCEPT !.ret = "nil"]
    ELSE IF m.data = "[]" THEN [m EXCEPT !.ret = "error"]
    ELSE [m EXCEPT !.data = TrimSpace(m.data), !.ret = "loop"]

\* lines 389-401
PVTimestamp(m) ==
    LET pos == IndexOf(m.data, ",")
        n   == ParseInt(TrimSpace(SubSeq(m.data, 1, pos - 1)))
    IN  IF pos = 0 THEN [m EXCEPT !.ret = "error"]
        ELSE IF n.err # ""
        THEN [m EXCEPT !.l[1].Timestamp = n.val, !.ret = "error"]
        ELSE [m EXCEPT !.l[1].Timestamp = n.val, !.data = From(m.data, pos + 1),
                       !.state = stringNumberState]

\* lines 402-421 with the value kept as the quoted text (numberBytes, not b)
PVStringNumberQuoted(m) ==
    LET pos         == IndexOf(m.data, "]")
        numberBytes == TrimSpace(SubSeq(m.data, 1, pos - 1))
        n           == Len(numberBytes)
        b           == SubSeq(numberBytes, 2, n - 1)
    IN  IF pos = 0 THEN [m EXCEPT !.ret = "error"]
        ELSE IF n < 2 \/ Char(numberBytes, 1) # "\"" \/ Char(numberBytes, n) # "\""
        THEN [m EXCEPT !.ret = "error"]
        ELSE IF Len(b) # Len(TrimSpace(b)) THEN [m EXCEPT !.ret = "error"]
        ELSE IF ~ParseFloatOK(b) THEN [m EXCEPT !.ret = "error"]
        ELSE [m EXCEPT !.l[1].Value = numberBytes, !.data = From(m.data, pos),
                       !.state = closeState]

\* lines 402-421 with data left where it was (line 420 dropped)
PVStringNumberInPlace(m) ==
    LET pos         == IndexOf(m.data, "]")
        numberBytes == TrimSpace(SubSeq(m.data, 1, pos - 1))
        n           == Len(numberBytes)
        b           == SubSeq(numberBytes, 2, n - 1)
    IN  IF pos = 0 THEN [m EXCEPT !.ret = "error"]
        ELSE IF n < 2 \/ Char(numberBytes, 1) # "\"" \/ Char(numberBytes, n) # "\""
        THEN [m EXCEPT !.ret = "error"]
        ELSE IF Len(b) # Len(TrimSpace(b)) THEN [m EXCEPT !.ret = "error"]
        ELSE IF ~ParseFloatOK(b) THEN [m EXCEPT !.ret = "error"]
        ELSE [m EXCEPT !.l[1].Value = b, !.state = closeState]

\* lines 402-421
PVStringNumber(m) ==
    LET pos         == IndexOf(m.data, "]")
        numberBytes == TrimSpace(SubSeq(m.data, 1, pos - 1))
        n           == Len(numberBytes)
        b           == SubSeq(numberBytes, 2, n - 1)
    IN  IF pos = 0 THEN [m EXCEPT !.ret = "error"]
        ELSE IF n < 2 \/ Char(numberBytes, 1) # "\"" \/ Char(numberBytes, n) # "\""
        THEN [m EXCEPT !.ret = "error"]
        ELSE IF Len(b) # Len(TrimSpace(b)) THEN [m EXCEPT !.ret = "error"]
        ELSE IF ~ParseFloatOK(b) THEN [m EXCEPT !.ret = "error"]
        ELSE [m EXCEPT !.l[1].Value = b, !.data = From(m.data, pos),
                       !.state = closeState]

\* lines 367-425: one iteration of the loop, taken with data not empty
PVIterate(m) ==
    LET c == Char(m.data, 1)
    IN  IF c = "["
        THEN IF m.state # startState THEN [m EXCEPT !.ret = "error"]
             ELSE IF m.l = Nil THEN [m EXCEPT !.ret = "panic"]
             ELSE [m EXCEPT !.data = TrimSpace(From(m.data, 2)),
                            !.state = timestampState]
        ELSE IF c = "]"
        THEN IF m.state # closeState THEN [m EXCEPT !.ret = "error"]
             ELSE [m EXCEPT !.data = TrimSpace(From(m.data, 2)),
                            !.state = doneState]
        ELSE IF m.state = timestampState THEN PVTimestamp(m)
        ELSE IF m.state = stringNumberState THEN PVStringNumber(m)
        ELSE [m EXCEPT !.ret = "error"]

\* lines 366 and 427-430: the loop's test and what follows the loop
PVStep(m) ==
    IF m.data # "" THEN PVIterate(m)
    ELSE [m EXCEPT !.ret = IF m.state = doneState THEN "nil" ELSE "error"]

RECURSIVE PVRun(_)
PVRun(m) ==
    IF m.ret = "call" THEN PVRun(PVEnter(m))
    ELSE IF m.ret = "loop" THEN PVRun(PVStep(m))
    ELSE m

\* the whole call: the error returned and the destination afterwards
UnmarshalJSON(l, data) == PVRun(PVCall(l, data))

(***************************************************************************)
(* The metrics stream of job_metrics.json.  A document is the sequence of  *)
(* the concatenated JSON objects (fragments) of the object; a fragment is  *)
(* [ok, entries], ok FALSE for text json.Decoder cannot read, and entries  *)
(* the members in document order:                                          *)
(*   [name, status, resultType, result], result a sequence of              *)
(*   [metric, value], each a pointer to the member's JSON text (Nil when   *)
(*   the member is absent).                                                *)
(* The two members are decoded by the package's own UnmarshalJSON methods. *)
(***************************************************************************)
ZeroValue == [Timestamp |-> 0, Value |-> ""]

NoMetrics == [k \in {} |-> {}]

\* one element of "result": PrometheusMetric{Metric, Value}
DecodeSeries(sr) ==
    LET lab == IF sr.metric = Nil THEN [err |-> "", l |-> NoLabels]
               ELSE LabelsUnmarshalJSON(NoLabels, sr.metric[1])
        val == IF sr.value = Nil
               THEN [ret |-> "nil", l |-> Ptr(ZeroValue)]
               ELSE UnmarshalJSON(Ptr(ZeroValue), sr.value[1])
    IN  [err |-> IF lab.err # "" THEN "labels"
                 ELSE IF val.ret # "nil" THEN "value" ELSE "",
         Metric |-> lab.l, Value |-> val.l[1]]

DecodeResult(en) ==
    LET rs == [i \in 1..Len(en.result) |-> DecodeSeries(en.result[i])]
    IN  [err |-> \E i \in 1..Len(rs) : rs[i].err # "",
         Status |-> en.status, ResultType |-> en.resultType,
         Result |-> [i \in 1..Len(rs) |->
                        [Metric |-> rs[i].Metric, Value |-> rs[i].Value]]]

\* DecodeEntries decoding into the element the map already holds, so that the
\* series of a name add up over the fragments
RECURSIVE DecodeEntriesIntoElement(_, _)
DecodeEntriesIntoElement(entries, metrics) ==
    IF entries = <<>> THEN [err |-> FALSE, metrics |-> metrics]
    ELSE LET en == Head(entries)
             r  == DecodeResult(en)
         IN  IF r.err THEN [err |-> TRUE, metrics |-> metrics]
             ELSE DecodeEntriesIntoElement(Tail(entries),
                      [n \in DOMAIN metrics \cup {en.name} |->
                          IF n # en.name THEN metrics[n]
                          ELSE [Status |-> r.Status, ResultType |-> r.ResultType,
                                Result |-> IF n \in DOMAIN metrics
                                           THEN metrics[n].Result \o r.Result
                                           ELSE r.Result]])

\* d.Decode(&metrics) on one fragment: each name's element is replaced whole
RECURSIVE DecodeEntries(_, _)
DecodeEntries(entries, metrics) ==
    IF entries = <<>> THEN [err |-> FALSE, metrics |-> metrics]
    ELSE LET en == Head(entries)
             r  == DecodeResult(en)
         IN  IF r.err THEN [err |-> TRUE, metrics |-> metrics]
             ELSE DecodeEntries(Tail(entries),
                      [n \in DOMAIN metrics \cup {en.name} |->
                          IF n = en.name
                          THEN [Status |-> r.Status, ResultType |-> r.ResultType,
                                Result |-> r.Result]
                          ELSE metrics[n]])

\* lines 191-199: decode until io.EOF; readFails is a failure of the reader,
\* which Decode returns once the fragments read before it are decoded
RECURSIVE DecodeStream(_, _, _, _)
DecodeStream(doc, readFails, rows, metrics) ==
    IF doc = <<>>
    THEN [err |-> IF readFails THEN "read" ELSE "", rows |-> rows, metrics |-> metrics]
    ELSE LET f == Head(doc)
             d == DecodeEntries(f.entries, metrics)
         IN  IF ~f.ok \/ d.err
             THEN [err |-> "decode", rows |-> rows, metrics |-> d.metrics]
             ELSE DecodeStream(Tail(doc), readFails, rows + 1, d.metrics)

(***************************************************************************)
(* Lines 201-242: consolidation into outputMetrics, a function from key to *)
(* OutputMetric.  Go iterates a map in no fixed order, so the result is    *)
(* the set of the maps the two range loops over maps can produce; with     *)
(* each map go the series dropped with a warning and those skipped without *)
(* one, as <<name, index>> (index from 0, as logged).                      *)
(***************************************************************************)
QuoteChar(c) ==
    CASE c = "\"" -> "\\\""
      [] c = "\\" -> "\\\\"
      [] c = "\n" -> "\\n"
      [] c = "\t" -> "\\t"
      [] c = "\r" -> "\\r"
      [] OTHER    -> c

RECURSIVE QuoteBody(_)
QuoteBody(v) == IF v = "" THEN "" ELSE QuoteChar(Char(v, 1)) \o QuoteBody(From(v, 2))

\* fmt.Sprintf("%s{%s=%q}", name, label, value)
CompositeKey(name, label, value) ==
    name \o "{" \o label \o "=" \o "\"" \o QuoteBody(value) \o "\"" \o "}"

OutputMetric(v) == [timestamp |-> v.Timestamp, value |-> v.Value]

Put(out, key, om) ==
    [k \in DOMAIN out \cup {key} |-> IF k = key THEN om ELSE out[k]]

\* lines 220-241: acc is [out, warned, silent]
RECURSIVE LabelLoop(_, _, _, _, _)
LabelLoop(name, result, i, label, acc) ==
    IF i > Len(result) THEN {acc}
    ELSE LET r == result[i]
             Body(lb) ==
                 IF lb \notin DOMAIN r.Metric
                 THEN LabelLoop(name, result, i + 1, lb,
                          [acc EXCEPT !.warned = @ \cup {<<name, i - 1>>}])
                 ELSE LabelLoop(name, result, i + 1, lb,
                          [acc EXCEPT !.out = Put(@,
                              CompositeKey(name, lb, r.Metric[lb]),
                              OutputMetric(r.Value))])
             Skip(lb) ==
                 LabelLoop(name, result, i + 1, lb,
                     [acc EXCEPT !.silent = @ \cup {<<name, i - 1>>}])
         IN  IF label # "" THEN Body(label)
             ELSE IF DOMAIN r.Metric = {} THEN Skip("")
             ELSE UNION {IF k = "" THEN Skip("") ELSE Body(k) : k \in DOMAIN r.Metric}

\* ConsolidateQuery without the test of the result type (lines 206-208)
ConsolidateQueryAnyType(name, v, acc) ==
    IF v.Status # "success" THEN {acc}
    ELSE IF Len(v.Result) = 0 THEN {acc}
    ELSE IF Len(v.Result) = 1 /\ DOMAIN v.Result[1].Metric = {}
    THEN {[acc EXCEPT !.out = Put(@, name, OutputMetric(v.Result[1].Value))]}
    ELSE LabelLoop(name, v.Result, 1, "", acc)

\* lines 203-241: one iteration of the loop over metrics
ConsolidateQuery(name, v, acc) ==
    IF v.Status # "success" THEN {acc}
    ELSE IF v.ResultType # "vector" THEN {acc}
    ELSE IF Len(v.Result) = 0 THEN {acc}
    ELSE IF Len(v.Result) = 1 /\ DOMAIN v.Result[1].Metric = {}
    THEN {[acc EXCEPT !.out = Put(@, name, OutputMetric(v.Result[1].Value))]}
    ELSE LabelLoop(name, v.Result, 1, "", acc)

RECURSIVE ConsolidateFrom(_, _, _)
ConsolidateFrom(metrics, todo, acc) ==
    IF todo = {} THEN {acc}
    ELSE UNION {ConsolidateFrom(metrics, todo \ {n}, a2) :
                   <<n, a2>> \in UNION {{<<m, a>> : a \in ConsolidateQuery(m, metrics[m], acc)}
                                         : m \in todo}}

Consolidate(metrics) ==
    ConsolidateFrom(metrics, DOMAIN metrics,
                    [out |-> [k \in {} |-> ZeroValue], warned |-> {}, silent |-> {}])

(***************************************************************************)
(* The two functions, each from its entry to the point where it either     *)
(* returns or holds a writer for the index object.  A plan is what the     *)
(* function does next: return err ("" is nil), or write w and return the   *)
(* outcome of the write.                                                   *)
(***************************************************************************)
Return(e) == [next |-> "return", err |-> e, w |-> Nil]

Write(path, body, meta, doesNotExist) ==
    [next |-> "write", err |-> "",
     w |-> Ptr([path |-> path, body |-> body, meta |-> meta,
                ifDoesNotExist |-> doesNotExist])]

RequiredMetric == "job:duration:total:seconds"

\* IndexJobsRoute asking a finished.json name for three segments, not four
IndexJobsRouteThreeSegments(name) ==
    LET base  == Base(name)
        parts == Split(name)
    IN  IF base = "finished.json"
        THEN IF Len(parts) < 3 THEN "ignore" ELSE "finished"
        ELSE IF base = "job_metrics.json"
        THEN IF Len(parts) < 4 THEN "ignore"
             ELSE IF parts[1] # "logs" THEN "ignore"
             ELSE IF \/ HasPrefix(parts[2], "periodic-ci-openshift-release-")
                     \/ HasPrefix(parts[2], "release-openshift-")
             THEN "metrics" ELSE "ignore"
        ELSE "ignore"

\* IndexJobsRoute without the test of the first segment (line 157)
IndexJobsRouteAnyRoot(name) ==
    LET base  == Base(name)
        parts == Split(name)
    IN  IF base = "finished.json"
        THEN IF Len(parts) < 4 THEN "ignore" ELSE "finished"
        ELSE IF base = "job_metrics.json"
        THEN IF Len(parts) < 4 THEN "ignore"
             ELSE IF \/ HasPrefix(parts[2], "periodic-ci-openshift-release-")
                     \/ HasPrefix(parts[2], "release-openshift-")
             THEN "metrics" ELSE "ignore"
        ELSE "ignore"

\* lines 74-80 and 149-175: what the event is taken for before any I/O
IndexJobsRoute(name) ==
    LET base  == Base(name)
        parts == Split(name)
    IN  IF base = "finished.json"
        THEN IF Len(parts) < 4 THEN "ignore" ELSE "finished"
        ELSE IF base = "job_metrics.json"
        THEN IF Len(parts) < 4 THEN "ignore"
             ELSE IF parts[1] # "logs" THEN "ignore"
             ELSE IF \/ HasPrefix(parts[2], "periodic-ci-openshift-release-")
                     \/ HasPrefix(parts[2], "release-openshift-")
             THEN "metrics" ELSE "ignore"
        ELSE "ignore"

\* JobState taking a null passed for a failure
JobStateNullFailed(finished) ==
    IF finished.Passed = Nil THEN "failed"
    ELSE IF finished.Passed[1] THEN "success"
    ELSE "failed"

\* lines 98-106
JobState(finished) ==
    IF finished.Passed = Nil THEN "error"
    ELSE IF finished.Passed[1] THEN "success"
    ELSE "failed"

\* lines 113-117: the link of a finished.json event
FinishedLink(bucket, name) == URLString(bucket, Dir(name))

\* FinishedIndexPath taking job and build after the root segment
FinishedIndexPathAfterRoot(kind, name, ts) ==
    LET parts == Split(name)
        job   == parts[2]
        build == parts[3]
        key   == FormatRFC3339(ts)
    IN  Join(<<"index", kind, key, job, build>>)

\* lines 108-118: the index path of a finished.json event
FinishedIndexPath(kind, name, ts) ==
    LET parts == Split(name)
        build == parts[Len(parts) - 1]
        job   == parts[Len(parts) - 2]
        key   == FormatRFC3339(ts)
    IN  Join(<<"index", kind, key, job, build>>)

\* lines 90-139, with data what ioutil.ReadAll returned
IndexJobsFinished(bucket, name, data) ==
    LET finished == UnmarshalFinished(data)
    IN  IF finished.err # "" THEN Return("decode")
        ELSE IF finished.Timestamp = Nil \/ finished.Timestamp[1] = 0 THEN Return("")
        ELSE LET state == JobState(finished)
                 ts    == finished.Timestamp[1]
                 u     == FinishedLink(bucket, name)
             IN  Write(FinishedIndexPath("job-state", name, ts),
                       [state |-> state, completed_at |-> ts, link |-> u],
                       [link |-> u, state |-> state, completed |-> FormatInt(ts)],
                       TRUE)

\* MetricsLink pointing at the directory of the object
MetricsLinkToDir(bucket, name) == URLString(bucket, Dir(name))

\* lines 155-164: the link of a job_metrics.json event
MetricsLink(bucket, name) ==
    LET parts == Split(name)
    IN  URLString(bucket, Join(SubSeq(parts, 1, 3)))

\* MetricsIndexPath taking job and build from the end of the name
MetricsIndexPathFromEnd(name, ts) ==
    LET parts == Split(name)
        build == parts[Len(parts) - 1]
        job   == parts[Len(parts) - 2]
        key   == FormatRFC3339(ts)
    IN  Join(<<"index", "job-metrics", key, job, build>>)

\* lines 163-164 and 254-257: the index path of a job_metrics.json event
MetricsIndexPath(name, ts) ==
    LET parts == Split(name)
        job   == parts[2]
        build == parts[3]
        key   == FormatRFC3339(ts)
    IN  Join(<<"index", "job-metrics", key, job, build>>)

\* IndexJobsPublishMetrics letting a label-qualified duration through the gate
IndexJobsPublishAnyDuration(bucket, name, outputMetrics) ==
    LET durations == {k \in DOMAIN outputMetrics : HasPrefix(k, RequiredMetric)}
    IN  IF durations = {} THEN Return("missing-metric")
        ELSE LET duration == outputMetrics[CHOOSE k \in durations : TRUE]
             IN  Write(MetricsIndexPath(name, duration.timestamp),
                       [metrics |-> outputMetrics],
                       [link |-> MetricsLink(bucket, name),
                        completed |-> FormatInt(duration.timestamp)],
                       TRUE)

\* IndexJobsPublishMetrics taking the completion time from the earliest sample
IndexJobsPublishEarliest(bucket, name, outputMetrics) ==
    IF RequiredMetric \notin DOMAIN outputMetrics THEN Return("missing-metric")
    ELSE LET first == CHOOSE k \in DOMAIN outputMetrics :
                          \A m \in DOMAIN outputMetrics :
                              outputMetrics[k].timestamp <= outputMetrics[m].timestamp
             duration == outputMetrics[first]
         IN  Write(MetricsIndexPath(name, duration.timestamp),
                   [metrics |-> outputMetrics],
                   [link |-> MetricsLink(bucket, name),
                    completed |-> FormatInt(duration.timestamp)],
                   TRUE)

\* lines 244-268, for one outputMetrics the consolidation can produce
IndexJobsPublishMetrics(bucket, name, outputMetrics) ==
    IF RequiredMetric \notin DOMAIN outputMetrics THEN Return("missing-metric")
    ELSE LET duration == outputMetrics[RequiredMetric]
         IN  Write(MetricsIndexPath(name, duration.timestamp),
                   [metrics |-> outputMetrics],
                   [link |-> MetricsLink(bucket, name),
                    completed |-> FormatInt(duration.timestamp)],
                   TRUE)

\* lines 191-268: the plans the stream read from the object can lead to
\* IndexJobsMetrics consolidating what was decoded before a decode error
IndexJobsMetricsPastDecodeError(bucket, name, doc, readFails) ==
    LET d == DecodeStream(doc, readFails, 0, NoMetrics)
    IN  IF d.err = "read" THEN {Return(d.err)}
        ELSE {IndexJobsPublishMetrics(bucket, name, c.out) : c \in Consolidate(d.metrics)}

IndexJobsMetrics(bucket, name, doc, readFails) ==
    LET d == DecodeStream(doc, readFails, 0, NoMetrics)
    IN  IF d.err # "" THEN {Return(d.err)}
        ELSE {IndexJobsPublishMetrics(bucket, name, c.out) : c \in Consolidate(d.metrics)}

\* part_000 lines 67-73
RecordFailingJobRoute(name) ==
    IF Base(name) = "finished.json" /\ Len(Split(name)) >= 4 THEN "finished"
    ELSE "ignore"

\* part_000 lines 82-105: the writer carries no precondition
RecordFailingJobFinished(bucket, name, data) ==
    LET finished == UnmarshalFinished(data)
    IN  IF finished.err # "" THEN Return("decode")
        ELSE IF \/ finished.Passed = Nil \/ finished.Passed[1]
                \/ finished.Timestamp = Nil \/ finished.Timestamp[1] = 0
        THEN Return("")
        ELSE Write(FinishedIndexPath("job-failures", name, finished.Timestamp[1]),
                   [raw |-> data],
                   [link |-> FinishedLink(bucket, name)],
                   FALSE)

(***************************************************************************)
(* The inputs drawn: events of one bucket and the objects they name.       *)
(***************************************************************************)
Bucket == "b"

\* event names: finished.json of the usual layout, deeper (scenario A), with
\* a segment path.Join drops and a character the URL escapes, under another
\* root with the same job and build, and too short to index
PlainFinished == "logs/my-job/55/finished.json"

DeepFinished == "logs/my-job/55/artifacts/.../finished.json"

OddFinished == "pr logs/./55/finished.json"

OtherRootFinished == "pr-logs/my-job/55/finished.json"

ShortFinished == "my-job/55/finished.json"

FinishedNames ==
    {PlainFinished, DeepFinished, OddFinished, OtherRootFinished, ShortFinished}

ReleaseMetrics == "logs/release-openshift-x/7/artifacts/job_metrics.json"

PeriodicMetrics == "logs/periodic-ci-openshift-release-y/8/job_metrics.json"

OtherJobMetrics == "logs/my-job/55/artifacts/job_metrics.json"

OtherRootMetrics == "pr-logs/release-openshift-x/7/job_metrics.json"

MetricsNames ==
    { ReleaseMetrics, PeriodicMetrics, OtherJobMetrics, OtherRootMetrics,
      "logs/job_metrics.json" }

OtherNames == { "logs/my-job/55/build-log.txt" }

EventNames == FinishedNames \cup MetricsNames \cup OtherNames

\* the texts a finished.json object may hold
PassedDoc == "{\"timestamp\":1620000000,\"passed\":true}"

FailedDoc == "{\"timestamp\":1620000000,\"passed\":false}"

FinishedDocs ==
    { PassedDoc,
      FailedDoc,
      FailedDoc \o "\n",
      "{\"timestamp\":1620086399,\"passed\":null}",
      "{\"passed\":true}",
      "{\"timestamp\":0,\"passed\":false}",
      "{\"timestamp\":" }

\* the finished.json objects of the bucket: a name and a text it may hold
FinishedObjects ==
    ({PlainFinished} \X FinishedDocs)
        \cup {<<DeepFinished, PassedDoc>>, <<OddFinished, PassedDoc>>,
              <<OddFinished, FailedDoc>>, <<OtherRootFinished, FailedDoc>>,
              <<ShortFinished, FailedDoc>>}

\* reads of a finished.json object that ioutil.ReadAll ended with an error:
\* the name and the prefix of the text it had read by then
TornReads ==
    { <<PlainFinished, FailedDoc>>,
      <<PlainFinished, "{\"timestamp\":162">> }

Series(metric, value) == [metric |-> metric, value |-> value]

Query(name, status, resultType, result) ==
    [name |-> name, status |-> status, resultType |-> resultType, result |-> result]

Fragment(entries) == [ok |-> TRUE, entries |-> entries]

BadFragment == [ok |-> FALSE, entries |-> <<>>]

Duration(value) ==
    Query(RequiredMetric, "success", "vector", <<Series(Ptr("{}"), Ptr(value))>>)

\* the streams a job_metrics.json object may hold, by a name for each
MetricsDocs ==
    [ only_duration |->
        << Fragment(<< Duration("[1620000000, \"42.5\"]") >>) >>,
      no_duration |->
        << Fragment(<< Query("cluster:cpu", "success", "vector",
                             << Series(Nil, Ptr("[1620000000,\"3\"]")) >>) >>) >>,
      labelled_duration |->
        << Fragment(<< Query(RequiredMetric, "success", "vector",
                             << Series(Ptr("{\"phase\":\"e2e\"}"),
                                       Ptr("[1620000000,\"42.5\"]")) >>) >>) >>,
      with_labels |->
        << Fragment(<< Duration("[1620000000, \"42.5\"]"),
                       Query("pod:cpu", "success", "vector",
                             << Series(Ptr("{\"pod\":\"a\",\"ns\":\"x\"}"),
                                       Ptr("[1620000000,\"1\"]")),
                                Series(Ptr("{\"pod\":\"b\"}"),
                                       Ptr("[1620000000,\"2\"]")) >>),
                       Query("up", "error", "vector", <<>>) >>) >>,
      bad_value |->
        << Fragment(<< Duration("[1620000000, \"42.5\"]"),
                       Query("cluster:cpu", "success", "vector",
                             << Series(Ptr("{}"), Ptr("[]")) >>) >>) >>,
      two_fragments |->
        << Fragment(<< Duration("[1620000000, \"42.5\"]") >>),
           Fragment(<< Duration("[1620086399, \"43\"]"),
                       Query("cluster:cpu", "success", "matrix",
                             << Series(Nil, Ptr("[1620086399,\"3\"]")) >>) >>) >>,
      unlabelled_first |->
        << Fragment(<< Duration("[1620000000, \"42.5\"]"),
                       Query("pod:cpu", "success", "vector",
                             << Series(Ptr("{}"), Ptr("[1620000000,\"1\"]")),
                                Series(Ptr("{\"pod\":\"b\"}"),
                                       Ptr("[1620000000,\"2\"]")) >>) >>) >>,
      filtered |->
        << Fragment(<< Duration("[1620000000, \"42.5\"]"),
                       Query("up", "error", "vector",
                             << Series(Nil, Ptr("[1620000000,\"1\"]")) >>),
                       Query("rate", "success", "matrix",
                             << Series(Nil, Ptr("[1620000000,\"2\"]")) >>),
                       Query("none", "success", "vector", <<>>) >>) >>,
      later_fragment_wins |->
        << Fragment(<< Duration("[1620000000, \"42.5\"]"),
                       Query("pod:cpu", "success", "vector",
                             << Series(Ptr("{\"pod\":\"a\"}"),
                                       Ptr("[1620000000,\"1\"]")),
                                Series(Ptr("{\"pod\":\"b\"}"),
                                       Ptr("[1620000000,\"2\"]")) >>),
                       Query("cluster:cpu", "success", "vector",
                             << Series(Nil, Ptr("[1620000000,\"3\"]")) >>) >>),
           Fragment(<< Duration("[1620086399, \"43\"]"),
                       Query("pod:cpu", "success", "vector",
                             << Series(Ptr("{\"pod\":\"c\"}"),
                                       Ptr("[1620086399,\"4\"]")) >>) >>) >>,
      null_value |->
        << Fragment(<< Duration("[1620000000, \"42.5\"]"),
                       Query("cluster:cpu", "success", "vector",
                             << Series(Ptr("{}"), Ptr("null")) >>),
                       Query("cluster:mem", "success", "vector",
                             << Series(Ptr("{}"), Nil) >>) >>) >>,
      bad_fragment |->
        << Fragment(<< Duration("[1620000000, \"42.5\"]") >>), BadFragment >> ]

MetricsDocNames == DOMAIN MetricsDocs

\* the job_metrics.json objects of the bucket: a name and the stream it holds
MetricsObjects ==
    ({ReleaseMetrics} \X MetricsDocNames)
        \cup {<<PeriodicMetrics, "only_duration">>,
              <<OtherJobMetrics, "only_duration">>,
              <<OtherRootMetrics, "only_duration">>}

\* reads of a job_metrics.json object whose reader failed once the stream's
\* fragments were read
FailedMetricsReads ==
    {<<ReleaseMetrics, "only_duration">>, <<ReleaseMetrics, "no_duration">>}

(***************************************************************************)
(* Bounds.                                                                 *)
(***************************************************************************)
\* invocations, of either function, in one behaviour
MaxInv == 2

\* deliveries of a finished.json event to IndexJobs, each retried on error
MaxDeliveries == 2

(***************************************************************************)
(* State.                                                                  *)
(*   index  the index objects of the bucket: path -> [body, meta]          *)
(*   inv    the bag of invocations so far: where each stands (pc), the     *)
(*          function and the event name it was given, how the read of the  *)
(*          source went (rd) and what it gave (data: the text of a         *)
(*          finished.json, the name of a metrics stream), the writer it    *)
(*          holds (w), how the write went (wres) and the error it          *)
(*          returned (err, "" for nil)                                     *)
(*   pv0,pv a call of PrometheusValue.UnmarshalJSON: as entered, and now   *)
(***************************************************************************)
VARIABLES index, inv, pv0, pv

vars == <<index, inv, pv0, pv>>

NoIndex == [p \in {} |-> [body |-> [raw |-> ""], meta |-> [link |-> ""]]]

NoCall == PVCall(Nil, "")

Init ==
    /\ index = NoIndex
    /\ inv = EmptyBag
    /\ pv0 = NoCall
    /\ pv = NoCall

\* the invocation after the function ran up to its plan
Started(fn, name, rd, data, plan) ==
    [pc |-> IF plan.next = "write" THEN "write" ELSE "done",
     fn |-> fn, name |-> name, rd |-> rd, data |-> data,
     err |-> plan.err, w |-> plan.w, wres |-> "none"]

\* functions.go lines 74-80, 149-175: the function returns before any I/O
IndexJobsIgnoredRuns ==
    {Started("IndexJobs", name, "none", "", Return("")) :
        name \in {n \in EventNames : IndexJobsRoute(n) = "ignore"}}

\* functions.go lines 76-139: finished.json opened, read, decoded and
\* classified; NewReader may fail, and ReadAll's error is dropped
IndexJobsFinishedRuns ==
    LET read(x) == IndexJobsRoute(x[1]) = "finished"
    IN  {Started("IndexJobs", x[1], "ok", x[2],
                 IndexJobsFinished(Bucket, x[1], x[2])) :
            x \in {y \in FinishedObjects : read(y)}}
        \cup {Started("IndexJobs", x[1], "readall-failed", x[2],
                      IndexJobsFinished(Bucket, x[1], x[2])) :
            x \in {y \in TornReads : read(y)}}
        \cup {Started("IndexJobs", n, "open-failed", "", Return("open")) :
            n \in {m \in FinishedNames : IndexJobsRoute(m) = "finished"}}

\* functions.go lines 149-268: job_metrics.json opened, decoded as a stream
\* and consolidated
IndexJobsMetricsRuns ==
    LET read(x) == IndexJobsRoute(x[1]) = "metrics"
    IN  UNION {{Started("IndexJobs", x[1], "ok", x[2], plan) :
                   plan \in IndexJobsMetrics(Bucket, x[1], MetricsDocs[x[2]], FALSE)}
               : x \in {y \in MetricsObjects : read(y)}}
        \cup UNION {{Started("IndexJobs", x[1], "read-failed", x[2], plan) :
                   plan \in IndexJobsMetrics(Bucket, x[1], MetricsDocs[x[2]], TRUE)}
               : x \in {y \in FailedMetricsReads : read(y)}}
        \cup {Started("IndexJobs", n, "open-failed", "", Return("open")) :
            n \in {m \in MetricsNames : IndexJobsRoute(m) = "metrics"}}

\* part_000 lines 67-73: the function returns before any I/O
RecordFailingJobIgnoredRuns ==
    {Started("RecordFailingJob", name, "none", "", Return("")) :
        name \in {n \in EventNames : RecordFailingJobRoute(n) = "ignore"}}

\* part_000 lines 69-105
RecordFailingJobFinishedRuns ==
    LET read(x) == RecordFailingJobRoute(x[1]) = "finished"
    IN  {Started("RecordFailingJob", x[1], "ok", x[2],
                 RecordFailingJobFinished(Bucket, x[1], x[2])) :
            x \in {y \in FinishedObjects : read(y)}}
        \cup {Started("RecordFailingJob", x[1], "readall-failed", x[2],
                      RecordFailingJobFinished(Bucket, x[1], x[2])) :
            x \in {y \in TornReads : read(y)}}
        \cup {Started("RecordFailingJob", n, "open-failed", "", Return("open")) :
            n \in {m \in FinishedNames : RecordFailingJobRoute(m) = "finished"}}

\* one more invocation may be delivered
CanStart == BagCardinality(inv) < MaxInv

\* the invocation delivered runs as r
Run(r) ==
    /\ inv' = inv (+) SetToBag({r})
    /\ UNCHANGED <<index, pv0, pv>>

IndexJobsIgnored == \E r \in IndexJobsIgnoredRuns : CanStart /\ Run(r)

IndexJobsOnFinished == \E r \in IndexJobsFinishedRuns : CanStart /\ Run(r)

IndexJobsOnMetrics == \E r \in IndexJobsMetricsRuns : CanStart /\ Run(r)

RecordFailingJobIgnored == \E r \in RecordFailingJobIgnoredRuns : CanStart /\ Run(r)

RecordFailingJobOnFinished ==
    \E r \in RecordFailingJobFinishedRuns : CanStart /\ Run(r)

\* w.Write and w.Close (functions.go 140-146, 269-275; part_000 106-111):
\* the object is created, unless the writer's precondition or storage fails
Store(w) ==
    Put(index, w.path, [body |-> w.body, meta |-> w.meta])

\* PreconditionFails of a writer whose precondition is not sent
PreconditionNeverFails(w) == FALSE

PreconditionFails(w) == w.ifDoesNotExist /\ w.path \in DOMAIN index

\* invocation r returns from its write with error err, the write having gone wres
Returned(r, err, wres) ==
    (inv (-) SetToBag({r}))
        (+) SetToBag({[r EXCEPT !.pc = "done", !.err = err, !.wres = wres]})

WriterClose ==
    \E r \in BagToSet(inv) :
        /\ r.pc = "write"
        /\ \/ /\ inv' = Returned(r, "write", "failed")
              /\ UNCHANGED index
           \/ /\ PreconditionFails(r.w[1])
              /\ inv' = Returned(r, "write", "exists")
              /\ UNCHANGED index
           \/ /\ ~PreconditionFails(r.w[1])
              /\ index' = Store(r.w[1])
              /\ inv' = Returned(r, "", "acked")
        /\ UNCHANGED <<pv0, pv>>

Next ==
    \/ IndexJobsIgnored
    \/ IndexJobsOnFinished
    \/ IndexJobsOnMetrics
    \/ RecordFailingJobIgnored
    \/ RecordFailingJobOnFinished
    \/ WriterClose

Spec == Init /\ [][Next]_vars

(***************************************************************************)
(* PrometheusValue.UnmarshalJSON on its own: a call is entered on some     *)
(* destination with some data, and runs to its return one loop iteration   *)
(* at a time.                                                              *)
(***************************************************************************)
\* the data of the calls
PVInputs ==
    { "null", "[]", " null", "null ", "NULL", "", "  ",
      "[1620000000, \"42.5\"]", "[ 7 , \"1e3\" ] ", "[7,\"NaN\"]",
      "[a,\"1\"]", "[7,\"a\"]", "[7,1]", "[7,\" 1\"]", "[7,\"1\"]]",
      "[", "[7", "[7,", "[7,\"1\"", "]", "[[7,\"1\"]]", "7,\"1\"]" }

\* the tuple form of a sample: timestamp t as Prometheus prints it, value v
\* quoted, and the JSON whitespace ws wherever the grammar allows it
TupleText(t, v, ws) ==
    ws \o "[" \o ws \o FormatInt(t) \o ws \o "," \o ws \o "\"" \o v \o "\""
       \o ws \o "]" \o ws

TupleTimestamps == {0, 5, -5, 1620000000, 2147483647}

TupleValues == {"42.5", "0", "-1.5e-3", "1e3", ".5", "+7", "1620000000.123"}

TupleSpaces == {"", " ", "\n\t\r "}

TupleForms ==
    { [t |-> t, v |-> v, ws |-> ws, text |-> TupleText(t, v, ws)] :
        t \in TupleTimestamps, v \in TupleValues, ws \in TupleSpaces }

TupleInputs == {x.text : x \in TupleForms}

\* tuples whose string strconv.ParseFloat takes though it is no finite decimal
NonDecimalValues == {"NaN", "Inf", "+Inf", "-Inf", "Infinity", "0x1p-2"}

NonDecimalInputs == {TupleText(7, v, "") : v \in NonDecimalValues}

\* the destinations of the calls: a nil pointer, an empty value, a populated one
PVDestinations ==
    { Nil, Ptr(ZeroValue), Ptr([Timestamp |-> 5, Value |-> "test"]) }

InitPV ==
    /\ index = NoIndex
    /\ inv = EmptyBag
    /\ pv0 \in {PVCall(l, data) : l \in PVDestinations,
                                   data \in PVInputs \cup TupleInputs
                                            \cup NonDecimalInputs}
    /\ pv = pv0

\* functions.go lines 357-365
UnmarshalJSONEnter ==
    /\ pv.ret = "call"
    /\ pv' = PVEnter(pv)
    /\ UNCHANGED <<index, inv, pv0>>

\* functions.go lines 366-430
UnmarshalJSONLoop ==
    /\ pv.ret = "loop"
    /\ pv' = PVStep(pv)
    /\ UNCHANGED <<index, inv, pv0>>

NextPV ==
    \/ UnmarshalJSONEnter
    \/ UnmarshalJSONLoop

SpecPV == InitPV /\ [][NextPV]_vars

(***************************************************************************)
(* IndexJobs under redelivery.  A delivery is one event handed to the      *)
(* function; the invocation it runs may fail, and a delivery whose         *)
(* invocation returned an error is handed to the function again.  Two      *)
(* deliveries may carry the same event.  inv holds, for each delivery, its *)
(* latest invocation, with the delivery d and the event ev it carries.     *)
(***************************************************************************)
Deliveries == 1..MaxDeliveries

\* the finished.json events delivered: completed jobs, two of them deriving
\* the same index path
DeliveredEvents ==
    { <<PlainFinished, PassedDoc>>, <<PlainFinished, FailedDoc>>,
      <<OtherRootFinished, FailedDoc>> }

\* the ways an invocation of IndexJobs on event ev can go up to its write
RunsOf(ev) ==
    {r \in IndexJobsFinishedRuns :
        /\ r.name = ev[1]
        /\ \/ r.rd = "open-failed"
           \/ r.rd \in {"ok", "readall-failed"} /\ r.data = ev[2]}

\* each event with each way its invocation can go
DeliveryRuns == UNION {{<<ev, r>> : r \in RunsOf(ev)} : ev \in DeliveredEvents}

Attempt(d, ev, r) == [d |-> d, ev |-> ev] @@ r

InitRedelivery == Init

\* the event of delivery d reaches IndexJobs for the first time
Deliver(d) ==
    \E y \in DeliveryRuns :
        /\ \A x \in BagToSet(inv) : x.d # d
        /\ inv' = inv (+) SetToBag({Attempt(d, y[1], y[2])})
        /\ UNCHANGED <<index, pv0, pv>>

\* the invocation of delivery d closes its writer, as WriterClose
Close(d) ==
    \E r \in BagToSet(inv) :
        /\ r.d = d
        /\ r.pc = "write"
        /\ \/ /\ inv' = Returned(r, "write", "failed")
              /\ UNCHANGED index
           \/ /\ PreconditionFails(r.w[1])
              /\ inv' = Returned(r, "write", "exists")
              /\ UNCHANGED index
           \/ /\ ~PreconditionFails(r.w[1])
              /\ index' = Store(r.w[1])
              /\ inv' = Returned(r, "", "acked")
        /\ UNCHANGED <<pv0, pv>>

\* the invocation of delivery d returned an error: the event is delivered again
Redeliver(d) ==
    \E y \in DeliveryRuns :
        \E x \in BagToSet(inv) :
            /\ x.d = d
            /\ x.ev = y[1]
            /\ x.pc = "done" /\ x.err # ""
            /\ inv' = (inv (-) SetToBag({x})) (+) SetToBag({Attempt(d, x.ev, y[2])})
            /\ UNCHANGED <<index, pv0, pv>>

NextRedelivery ==
    \E d \in Deliveries :
        \/ Deliver(d)
        \/ Close(d)
        \/ Redeliver(d)

\* every invocation runs to its return, and every failed one is redelivered
SpecRedelivery ==
    /\ InitRedelivery
    /\ [][NextRedelivery]_vars
    /\ \A d \in Deliveries : WF_vars(Close(d)) /\ WF_vars(Redeliver(d))

(***************************************************************************)
(* Properties of the index.                                                *)
(***************************************************************************)
\* every way an invocation can start
Runs ==
    IndexJobsIgnoredRuns \cup IndexJobsFinishedRuns \cup IndexJobsMetricsRuns
        \cup RecordFailingJobIgnoredRuns \cup RecordFailingJobFinishedRuns

\* the conversions the properties use, tabulated over the names, paths and
\* texts of the catalogue
NameParts == [n \in EventNames |-> Split(n)]

NameBase == [n \in EventNames |-> Base(n)]

PathParts == [p \in {r.w[1].path : r \in {x \in Runs : x.w # Nil}} |-> Split(p)]

Decoded == [d \in {r.data : r \in IndexJobsFinishedRuns} |-> UnmarshalFinished(d)]

\* the maps the consolidation of a stream can give, or {} where it does not decode
Consolidated ==
    [d \in MetricsDocNames |->
        LET s == DecodeStream(MetricsDocs[d], FALSE, 0, NoMetrics)
        IN  IF s.err # "" THEN {} ELSE {c.out : c \in Consolidate(s.metrics)}]

\* the merged document of a stream, and what its consolidation can give: the
\* output map with the series warned about and those skipped without a word
StreamMetrics ==
    [d \in MetricsDocNames |->
        DecodeStream(MetricsDocs[d], FALSE, 0, NoMetrics).metrics]

Consolidations == [d \in MetricsDocNames |-> Consolidate(StreamMetrics[d])]

\* the query names of a merged document that go through the label loop
LabelledQueries(metrics) ==
    {n \in DOMAIN metrics :
        /\ metrics[n].Status = "success"
        /\ metrics[n].ResultType = "vector"
        /\ Len(metrics[n].Result) > 0
        /\ ~(Len(metrics[n].Result) = 1 /\ DOMAIN metrics[n].Result[1].Metric = {})}

\* the keys of an output map that query name n can have contributed
KeysOf(n, out) == {k \in DOMAIN out : k = n \/ HasPrefix(k, n \o "{")}

\* the query names of a stream, and for a name the entry that comes last in
\* the last fragment that has the name
StreamNames(doc) ==
    UNION {{doc[i].entries[j].name : j \in 1..Len(doc[i].entries)} : i \in 1..Len(doc)}

HasName(f, n) == \E j \in 1..Len(f.entries) : f.entries[j].name = n

LastEntry(doc, n) ==
    LET i == CHOOSE k \in 1..Len(doc) :
                 HasName(doc[k], n) /\ \A m \in (k + 1)..Len(doc) : ~HasName(doc[m], n)
        e == doc[i].entries
        j == CHOOSE k \in 1..Len(e) :
                 e[k].name = n /\ \A m \in (k + 1)..Len(e) : e[m].name # n
    IN  e[j]

LastFragmentWins ==
    [d \in MetricsDocNames |->
        /\ DOMAIN StreamMetrics[d] = StreamNames(MetricsDocs[d])
        /\ \A n \in StreamNames(MetricsDocs[d]) :
               LET q == DecodeResult(LastEntry(MetricsDocs[d], n))
               IN  StreamMetrics[d][n] =
                       [Status |-> q.Status, ResultType |-> q.ResultType,
                        Result |-> q.Result]]

\* the shard key and the completed attribute of the durations the streams hold
DurationStamps ==
    {out[RequiredMetric].timestamp :
        out \in {o \in UNION {Consolidated[d] : d \in MetricsDocNames} :
                    RequiredMetric \in DOMAIN o}}

ShardKey == [t \in DurationStamps |-> FormatRFC3339(t)]

Completed == [t \in DurationStamps |-> FormatInt(t)]

\* whether strconv.ParseFloat takes the value strings the consolidations hold
ValueParses ==
    [v \in UNION {{out[k].value : k \in DOMAIN out} :
                    out \in UNION {Consolidated[d] : d \in MetricsDocNames}} |->
        ParseFloatOK(v)]

\* whether a name lies under logs/ with a job of the release families
InScope ==
    [n \in EventNames |->
        LET parts == Split(n)
        IN  /\ Len(parts) >= 2
            /\ parts[1] = "logs"
            /\ \/ HasPrefix(parts[2], "periodic-ci-openshift-release-")
               \/ HasPrefix(parts[2], "release-openshift-")]

\* whether every fragment of a stream decodes
StreamDecodes ==
    [d \in MetricsDocNames |->
        DecodeStream(MetricsDocs[d], FALSE, 0, NoMetrics).err = ""]

\* gs://<bucket>/<dir> for the segments dir, cleaned and escaped
LinkTo(dir) == "gs://" \o Bucket \o "/" \o EscapePath(Clean(JoinSlash(dir)))

\* the link to all but the last segment of a name, and to its first three
DirLink == [n \in EventNames |-> LinkTo(SubSeq(Split(n), 1, Len(Split(n)) - 1))]

BuildLink ==
    [n \in {m \in EventNames : Len(Split(m)) >= 3} |-> LinkTo(SubSeq(Split(n), 1, 3))]

Invs == BagToSet(inv)

\* the object a writer creates
ObjectOf(w) == [body |-> w.body, meta |-> w.meta]

\* the invocations of IndexJobs that derived the index path p
IndexJobsWriters(p) ==
    {r \in Invs : r.fn = "IndexJobs" /\ r.w # Nil /\ r.w[1].path = p}

\* a path segment that path.Join keeps
Kept(seg) == seg \notin {"", "."}

\* C1: once an index object exists at a path, no step of any invocation
\* replaces its body or its metadata.
C1_NeverReplaced ==
    [][\A p \in DOMAIN index : p \in DOMAIN index' /\ index'[p] = index[p]]_vars

\* C1, the case: two invocations of RecordFailingJob were acknowledged a
\* write at one path, of different objects.
C1_Replaced ==
    \E r, s \in Invs :
        /\ r.fn = "RecordFailingJob" /\ s.fn = "RecordFailingJob"
        /\ r.wres = "acked" /\ s.wres = "acked"
        /\ r.w[1].path = s.w[1].path
        /\ ObjectOf(r.w[1]) # ObjectOf(s.w[1])

\* C2: among the invocations of IndexJobs that derived one index path, at
\* most one was acknowledged its write; the object exists at the path exactly
\* when one was, and holds what that one wrote.
C2_OnePublication ==
    \A r \in Invs :
        (r.fn = "IndexJobs" /\ r.w # Nil) =>
            LET p     == r.w[1].path
                acked == {s \in IndexJobsWriters(p) : s.wres = "acked"}
            IN  /\ Cardinality(acked) <= 1
                /\ \A s \in acked :
                       /\ CopiesIn(s, inv) = 1
                       /\ p \in DOMAIN index
                       /\ index[p] = ObjectOf(s.w[1])
                /\ p \in DOMAIN index => acked # {}

\* C2, the case: two invocations derived one path with different records,
\* one was acknowledged and the other met the object.
C2_SecondWriterRefused ==
    \E r, s \in Invs :
        /\ r.fn = "IndexJobs" /\ s.fn = "IndexJobs"
        /\ r.wres = "acked" /\ s.wres = "exists"
        /\ r.w[1].path = s.w[1].path
        /\ ObjectOf(r.w[1]) # ObjectOf(s.w[1])
        /\ index[r.w[1].path] = ObjectOf(r.w[1])

\* C3: an invocation of IndexJobs that finds the index object already at
\* the path it derived returns no error.
C3_RedeliveryReturnsNil ==
    \A r \in Invs : (r.fn = "IndexJobs" /\ r.wres = "exists") => r.err = ""

C5_JobAndBuild ==
    \A r \in Invs :
        r.w # Nil =>
            LET parts   == NameParts[r.name]
                segs    == PathParts[r.w[1].path]
                metrics == NameBase[r.name] = "job_metrics.json"
                job     == IF metrics THEN parts[2] ELSE parts[Len(parts) - 2]
                build   == IF metrics THEN parts[3] ELSE parts[Len(parts) - 1]
                kind    == IF metrics THEN "job-metrics"
                           ELSE IF r.fn = "IndexJobs" THEN "job-state"
                           ELSE "job-failures"
            IN  /\ Len(parts) >= 4
                /\ SubSeq(segs, 1, 2) = <<"index", kind>>
                /\ (job # ".." /\ build # "..") =>
                       SubSeq(segs, 4, Len(segs)) = SelectSeq(<<job, build>>, Kept)

\* C5 as written: every published object's path ends with the third-from-last
\* and the second-from-last segments of the source name.
C5_FromTheEnd ==
    \A r \in Invs :
        r.wres = "acked" =>
            LET parts == NameParts[r.name]
                segs  == PathParts[r.w[1].path]
            IN  /\ Len(segs) = 5
                /\ segs[4] = parts[Len(parts) - 2]
                /\ segs[5] = parts[Len(parts) - 1]

\* C5, the case: a job-metrics object is published for a name whose segments
\* counted from the end are not the job and the build.
C5_MetricsPublished ==
    \E r \in Invs :
        /\ r.name = "logs/release-openshift-x/7/artifacts/job_metrics.json"
        /\ r.wres = "acked"
        /\ r.w[1].path = "index/job-metrics/2021-05-03T00:00:00Z/release-openshift-x/7"
        /\ r.w[1].path \in DOMAIN index

C7_RequiredMetricGate ==
    \A r \in Invs :
        (r.fn = "IndexJobs" /\ NameBase[r.name] = "job_metrics.json" /\ r.rd = "ok") =>
            /\ r.w # Nil => RequiredMetric \in DOMAIN r.w[1].body.metrics
            /\ Consolidated[r.data] # {} =>
                   \E out \in Consolidated[r.data] :
                       IF RequiredMetric \notin DOMAIN out
                       THEN /\ r.pc = "done" /\ r.err = "missing-metric"
                            /\ r.w = Nil /\ r.wres = "none"
                       ELSE r.w # Nil /\ r.w[1].body.metrics = out

\* C7, the case: a stream whose duration carries a label, so that the bare
\* key is missing, was rejected, and so was one with other metrics only.
C7_Rejected ==
    \E r, s \in Invs :
        /\ r.data = "labelled_duration" /\ r.rd = "ok"
        /\ r.err = "missing-metric" /\ r.w = Nil
        /\ s.data = "no_duration" /\ s.rd = "ok"
        /\ s.err = "missing-metric" /\ s.w = Nil
        /\ index = NoIndex

\* C8: an event whose base name is neither finished.json nor
\* job_metrics.json, or whose name has fewer than four segments, makes either
\* function return nil having opened no reader and no writer.
C8_IrrelevantEvents ==
    \A r \in Invs :
        (\/ NameBase[r.name] \notin {"finished.json", "job_metrics.json"}
         \/ Len(NameParts[r.name]) < 4) =>
            /\ r.pc = "done" /\ r.err = ""
            /\ r.rd = "none" /\ r.w = Nil /\ r.wres = "none"

\* C8, the case: IndexJobs returned on a finished.json of three segments and
\* RecordFailingJob on a build log.
C8_Ignored ==
    \E r, s \in Invs :
        /\ r.fn = "IndexJobs" /\ r.name = "my-job/55/finished.json"
        /\ r.pc = "done"
        /\ s.fn = "RecordFailingJob" /\ s.name = "logs/my-job/55/build-log.txt"
        /\ s.pc = "done"
        /\ index = NoIndex

C10_NullLeavesDestination ==
    pv0.data = "null" => (pv.l = pv0.l /\ pv.ret \in {"call", "nil"})

\* C10, the case: the call returned on a populated destination.
C10_NullOnPopulated ==
    /\ pv0.data = "null"
    /\ pv0.l = Ptr([Timestamp |-> 5, Value |-> "test"])
    /\ pv.ret = "nil"

\* the text between the '[' that opens data and the first ',' read as an
\* int64: [ok, val], ok FALSE where data has no such text or it is no int64
TupleTimestamp(data) ==
    LET d   == TrimSpace(data)
        pos == IndexOf(d, ",")
        n   == ParseInt(TrimSpace(SubSeq(d, 2, pos - 1)))
    IN  IF d = "" \/ Char(d, 1) # "[" \/ pos = 0 THEN [ok |-> FALSE, val |-> 0]
        ELSE [ok |-> n.err = "", val |-> n.val]

\* C11: when the call returns an error, the destination's Value is what it
\* was, and its Timestamp is what it was unless the text between '[' and the
\* first ',' is an int64, and then it may be that integer.
C11_PartialMutation ==
    (pv.ret = "error" /\ pv0.l # Nil) =>
        /\ pv.l[1].Value = pv0.l[1].Value
        /\ \/ pv.l[1].Timestamp = pv0.l[1].Timestamp
           \/ /\ TupleTimestamp(pv0.data).ok
              /\ pv.l[1].Timestamp = TupleTimestamp(pv0.data).val

\* C11, the case: the call returned an error on a timestamp that is no
\* int64, and the Timestamp of the destination, 5 before, is 0.
C11_TimestampLost ==
    /\ pv0.data = "[a,\"1\"]"
    /\ pv0.l = Ptr([Timestamp |-> 5, Value |-> "test"])
    /\ pv.ret = "error"
    /\ pv.l = Ptr([Timestamp |-> 0, Value |-> "test"])

\* C12: decoding the tuple form of a timestamp t and a decimal string v that
\* float64 holds, with whitespace around the brackets, the timestamp and the
\* quoted value, returns nil and leaves Timestamp = t and Value = v, the very
\* characters between the quotes.
C12_TupleRoundTrip ==
    \A x \in TupleForms :
        (pv0.data = x.text /\ pv0.l # Nil /\ pv.ret \notin {"call", "loop"}) =>
            /\ pv.ret = "nil"
            /\ pv.l = Ptr([Timestamp |-> x.t, Value |-> x.v])

C12_RawStringKept ==
    /\ pv0.data = TupleText(1620000000, "-1.5e-3", "\n\t\r ")
    /\ pv0.l = Ptr([Timestamp |-> 5, Value |-> "test"])
    /\ pv.ret = "nil"
    /\ pv.l = Ptr([Timestamp |-> 1620000000, Value |-> "-1.5e-3"])

\* C13: an invocation whose read of the source object failed (at opening it
\* or while reading its bytes) attempts no index write and returns an error.
C13_ReadFailureReturned ==
    \A r \in Invs :
        r.rd \in {"open-failed", "readall-failed", "read-failed"} =>
            /\ r.w = Nil
            /\ r.pc = "done" => r.err # ""

C13_PublishedAfterFailedRead ==
    \E r \in Invs :
        /\ r.fn = "IndexJobs"
        /\ r.rd = "readall-failed"
        /\ r.pc = "done" /\ r.err = "" /\ r.wres = "acked"
        /\ r.w[1].path \in DOMAIN index
        /\ index[r.w[1].path] = ObjectOf(r.w[1])

\* C14: an invocation that read a completion marker json.Unmarshal rejects,
\* or a metrics stream with a fragment or a tuple value the decoder rejects,
\* returns an error without having created a writer; so every writer belongs
\* to an invocation whose input decoded.
C14_DecodeFailureFatal ==
    \A r \in Invs :
        (/\ r.rd \in {"ok", "readall-failed", "read-failed"}
         /\ IF NameBase[r.name] = "finished.json"
            THEN Decoded[r.data].err # ""
            ELSE ~StreamDecodes[r.data]) =>
            /\ r.pc = "done"
            /\ r.err = "decode"
            /\ r.w = Nil
            /\ r.wres = "none"

C14_DecodeFailures ==
    /\ \E r \in Invs :
            /\ r.fn = "IndexJobs" /\ r.rd = "ok" /\ r.data = "bad_value"
            /\ r.err = "decode" /\ r.w = Nil
    /\ \E r \in Invs :
            /\ r.fn = "IndexJobs" /\ r.rd = "ok" /\ r.data = "{\"timestamp\":"
            /\ r.err = "decode" /\ r.w = Nil

\* C15: two invocations of IndexJobs that read the same metrics stream from
\* the same object and came to write hold bodies with the same set of keys.
C15_SameCompositeKeys ==
    \A r, s \in Invs :
        (/\ r.fn = "IndexJobs" /\ s.fn = "IndexJobs"
         /\ NameBase[r.name] = "job_metrics.json"
         /\ r.name = s.name /\ r.data = s.data
         /\ r.rd = "ok" /\ s.rd = "ok"
         /\ r.w # Nil /\ s.w # Nil) =>
            DOMAIN r.w[1].body.metrics = DOMAIN s.w[1].body.metrics

C15_TwoLabelChoices ==
    \E r, s \in Invs :
        /\ r.fn = "IndexJobs" /\ s.fn = "IndexJobs"
        /\ r.name = ReleaseMetrics /\ s.name = ReleaseMetrics
        /\ r.data = "with_labels" /\ s.data = "with_labels"
        /\ r.rd = "ok" /\ s.rd = "ok"
        /\ DOMAIN r.w[1].body.metrics =
               {RequiredMetric, "pod:cpu{pod=\"a\"}", "pod:cpu{pod=\"b\"}"}
        /\ DOMAIN s.w[1].body.metrics = {RequiredMetric, "pod:cpu{ns=\"x\"}"}

\* C16: the body an invocation of IndexJobs writes for a metrics stream comes
\* of a consolidation in which, for every query that goes through the label
\* loop, some key of the first series' label map is such that each series is
\* either in the body under the composite key of its value for that key or
\* was dropped with a warning giving the query name and its index.
C16_PublishedOrWarned ==
    \A r \in Invs :
        (/\ r.fn = "IndexJobs" /\ NameBase[r.name] = "job_metrics.json"
         /\ r.rd = "ok" /\ r.w # Nil) =>
            \E c \in Consolidations[r.data] :
                /\ c.out = r.w[1].body.metrics
                /\ \A n \in LabelledQueries(StreamMetrics[r.data]) :
                       LET result == StreamMetrics[r.data][n].Result
                       IN  \E label \in DOMAIN result[1].Metric :
                               \A i \in 1..Len(result) :
                                   \/ /\ label \in DOMAIN result[i].Metric
                                      /\ CompositeKey(n, label, result[i].Metric[label])
                                             \in DOMAIN c.out
                                   \/ <<n, i - 1>> \in c.warned

C16_SilentlySkipped ==
    /\ \E r \in Invs :
            /\ r.fn = "IndexJobs" /\ r.data = "unlabelled_first" /\ r.rd = "ok"
            /\ r.wres = "acked"
            /\ DOMAIN r.w[1].body.metrics = {RequiredMetric, "pod:cpu{pod=\"b\"}"}
            /\ index[r.w[1].path] = ObjectOf(r.w[1])
    /\ \A c \in Consolidations["unlabelled_first"] :
            c.silent = {<<"pod:cpu", 0>>} /\ c.warned = {}

\* C17: in every output map the consolidation of a stream read by IndexJobs
\* can give, the body it writes being one of them, a query whose
\* status is not success, whose result type is not vector or whose series
\* list is empty has no key, and a query with exactly one series without
\* labels has the one key that is its bare name, holding that series'
\* timestamp and value string.
C17_ConsolidationFilter ==
    \A r \in Invs :
        (/\ r.fn = "IndexJobs" /\ NameBase[r.name] = "job_metrics.json"
         /\ r.rd = "ok") =>
            /\ r.w # Nil => r.w[1].body.metrics \in Consolidated[r.data]
            /\ \A out \in Consolidated[r.data] :
                   \A n \in DOMAIN StreamMetrics[r.data] :
                       LET v == StreamMetrics[r.data][n]
                       IN  IF \/ v.Status # "success"
                              \/ v.ResultType # "vector"
                              \/ Len(v.Result) = 0
                           THEN KeysOf(n, out) = {}
                           ELSE (Len(v.Result) = 1 /\ DOMAIN v.Result[1].Metric = {}) =>
                                   /\ KeysOf(n, out) = {n}
                                   /\ out[n] =
                                          [timestamp |-> v.Result[1].Value.Timestamp,
                                           value |-> v.Result[1].Value.Value]

C17_ScenarioB ==
    \E r, s \in Invs :
        /\ r.fn = "IndexJobs" /\ r.data = "only_duration" /\ r.rd = "ok"
        /\ r.w[1].body.metrics =
               (RequiredMetric :> [timestamp |-> 1620000000, value |-> "42.5"])
        /\ s.fn = "IndexJobs" /\ s.data = "filtered" /\ s.rd = "ok"
        /\ DOMAIN StreamMetrics["filtered"] = {RequiredMetric, "up", "rate", "none"}
        /\ DOMAIN s.w[1].body.metrics = {RequiredMetric}

\* C18: for a stream all of whose fragments decode, the merged document has
\* the names of all the fragments, each with the result of the last fragment
\* that has the name and nothing of the earlier ones; the end of the input
\* is no decode error, and what IndexJobs writes is a consolidation of that
\* merged document.
C18_StreamingMerge ==
    \A r \in Invs :
        (/\ r.fn = "IndexJobs" /\ NameBase[r.name] = "job_metrics.json"
         /\ r.rd = "ok" /\ StreamDecodes[r.data]) =>
            /\ LastFragmentWins[r.data]
            /\ r.err # "decode"
            /\ r.w # Nil => r.w[1].body.metrics \in Consolidated[r.data]

C18_LaterFragmentPublished ==
    \E r \in Invs :
        /\ r.fn = "IndexJobs" /\ r.data = "later_fragment_wins" /\ r.rd = "ok"
        /\ Len(MetricsDocs[r.data]) = 2
        /\ r.wres = "acked" /\ r.err = ""
        /\ r.w[1].body.metrics =
               [k \in {RequiredMetric, "cluster:cpu", "pod:cpu{pod=\"c\"}"} |->
                   IF k = RequiredMetric THEN [timestamp |-> 1620086399, value |-> "43"]
                   ELSE IF k = "cluster:cpu" THEN [timestamp |-> 1620000000, value |-> "3"]
                   ELSE [timestamp |-> 1620086399, value |-> "4"]]
        /\ index[r.w[1].path] = ObjectOf(r.w[1])

\* C19: every object of the index under index/job-metrics has a body with
\* the key job:duration:total:seconds, the third segment of its path is that
\* entry's timestamp as RFC3339 in UTC, and its completed attribute is that
\* timestamp in decimal.
C19_PublishedJobMetrics ==
    \A p \in DOMAIN index :
        PathParts[p][2] = "job-metrics" =>
            /\ "metrics" \in DOMAIN index[p].body
            /\ RequiredMetric \in DOMAIN index[p].body.metrics
            /\ LET ts == index[p].body.metrics[RequiredMetric].timestamp
               IN  /\ PathParts[p][1] = "index"
                   /\ PathParts[p][3] = ShardKey[ts]
                   /\ index[p].meta.completed = Completed[ts]

C19_LaterDurationPublished ==
    LET p == "index/job-metrics/2021-05-03T23:59:59Z/release-openshift-x/7"
    IN  /\ p \in DOMAIN index
        /\ index[p].body.metrics[RequiredMetric].timestamp = 1620086399
        /\ "cluster:cpu" \in DOMAIN index[p].body.metrics
        /\ index[p].body.metrics["cluster:cpu"].timestamp = 1620000000
        /\ index[p].meta.completed = "1620086399"

\* C20: in every object of the index under index/job-metrics, the value of
\* every entry of the body is a string that strconv.ParseFloat takes.
C20_ValuesParse ==
    \A p \in DOMAIN index :
        PathParts[p][2] = "job-metrics" =>
            \A k \in DOMAIN index[p].body.metrics :
                ValueParses[index[p].body.metrics[k].value]

C20_EmptyValuePublished ==
    \E r \in Invs :
        /\ r.fn = "IndexJobs" /\ r.data = "null_value" /\ r.rd = "ok"
        /\ r.wres = "acked" /\ r.err = ""
        /\ r.w[1].path \in DOMAIN index
        /\ index[r.w[1].path] = ObjectOf(r.w[1])
        /\ index[r.w[1].path].body.metrics["cluster:cpu"] = [timestamp |-> 0, value |-> ""]
        /\ index[r.w[1].path].body.metrics["cluster:mem"] = [timestamp |-> 0, value |-> ""]
        /\ ~ValueParses[""]

\* C21: a call on a tuple whose quoted string is NaN, an infinity or a
\* hexadecimal float returns an error.
C21_NonDecimalRejected ==
    (pv0.data \in NonDecimalInputs /\ pv0.l # Nil /\ pv.ret \notin {"call", "loop"}) =>
        pv.ret = "error"

C21_NonDecimalAccepted ==
    /\ pv0.data = "[7,\"Infinity\"]"
    /\ pv0.data \in NonDecimalInputs
    /\ pv0.l = Ptr([Timestamp |-> 5, Value |-> "test"])
    /\ pv.ret = "nil"
    /\ pv.l = Ptr([Timestamp |-> 7, Value |-> "Infinity"])

\* C22: every object under index/job-metrics was written by an invocation
\* on a name whose first segment is logs and whose second segment starts
\* with periodic-ci-openshift-release- or release-openshift-, and an
\* invocation on any other job_metrics.json returned nil having opened no
\* reader and no writer.
C22_ScopeFilter ==
    /\ \A p \in DOMAIN index :
           PathParts[p][2] = "job-metrics" =>
               \E r \in Invs :
                   /\ r.wres = "acked" /\ r.w[1].path = p
                   /\ r.fn = "IndexJobs" /\ NameBase[r.name] = "job_metrics.json"
                   /\ InScope[r.name]
    /\ \A r \in Invs :
           (NameBase[r.name] = "job_metrics.json" /\ ~InScope[r.name]) =>
               /\ r.pc = "done" /\ r.err = ""
               /\ r.rd = "none" /\ r.w = Nil /\ r.wres = "none"

C22_OutOfScopeSkipped ==
    \E r, s \in Invs :
        /\ r.fn = "IndexJobs" /\ s.fn = "IndexJobs"
        /\ r.name = "pr-logs/release-openshift-x/7/job_metrics.json"
        /\ r.pc = "done" /\ r.err = "" /\ r.rd = "none"
        /\ s.name = "logs/periodic-ci-openshift-release-y/8/job_metrics.json"
        /\ s.wres = "acked"
        /\ DOMAIN index = {s.w[1].path}

\* a step in which storage fails an invocation: its reader does not open or
\* breaks off, or its write fails for another reason than the precondition
StorageFailure ==
    \E r \in BagToSet(inv') :
        /\ r \notin BagToSet(inv)
        /\ r.rd \in {"open-failed", "readall-failed"} \/ r.wres = "failed"

\* C23: when storage eventually stops failing, every delivery made has
\* eventually an invocation that returned nil.
C23_RedeliveryConverges ==
    <>[][~StorageFailure]_vars =>
        \A d \in Deliveries :
            (\E r \in BagToSet(inv) : r.d = d)
                ~> (\E r \in BagToSet(inv) : r.d = d /\ r.pc = "done" /\ r.err = "")

C23_DuplicateRefused ==
    \E r, s \in BagToSet(inv) :
        /\ r.d # s.d
        /\ r.ev = <<PlainFinished, PassedDoc>> /\ s.ev = r.ev
        /\ r.rd = "ok" /\ r.wres = "acked" /\ r.err = ""
        /\ s.rd = "ok" /\ s.wres = "exists" /\ s.err = "write"
        /\ index[r.w[1].path] = ObjectOf(r.w[1])

\* a step of the scanning loop that does not end the call leaves less input
\* and a later state of the automaton
LoopProgress ==
    pv.ret = "loop" =>
        \/ pv'.ret # "loop"
        \/ /\ Len(pv'.data) < Len(pv.data)
           /\ pv'.state > pv.state
           /\ pv'.state <= doneState

\* C24: every iteration of the loop either ends the call (with nil, with an
\* error, or with the panic of a nil destination at '[') or shortens the
\* input and moves the automaton forward; the call returns nil only on the
\* text null, before the loop, or with the automaton done and no input left.
C24_Terminates ==
    [][/\ LoopProgress
       /\ pv'.ret = "panic" => pv0.l = Nil
       /\ pv'.ret = "nil" =>
              \/ pv0.data = "null" /\ pv.ret = "call"
              \/ pv'.state = doneState /\ pv'.data = "" /\ pv.ret = "loop"]_vars

\* C24 as stated: nil is returned only with the automaton done and no input left
C24_SuccessOnlyWhenDone ==
    [][pv0.l # Nil =>
          /\ LoopProgress
          /\ pv'.ret \in {"call", "loop", "nil", "error"}
          /\ pv'.ret = "nil" => pv'.state = doneState /\ pv'.data = ""]_vars

C24_ScannedToDone ==
    /\ pv0.data = "[ 7 , \"1e3\" ] "
    /\ pv0.l # Nil
    /\ pv.ret = "nil"
    /\ pv.state = doneState
    /\ pv.data = ""

====
